---- MODULE Spec2Model ----
(***************************************************************************)
(* The pool worker of codeface (src/worker/worker.go): Worker.Start, its   *)
(* work closure, addAppsToPool with its run.Group of deploys, and          *)
(* removeOutdatedApps, against a remote pool of instances.                 *)
(*                                                                         *)
(* The scheduler goroutine is modelled by pc; it blocks in the listing     *)
(* calls ("add_list", "rm_list"), in run.Group.Run ("run_wait" for the     *)
(* first actor, "run_join" for the others), between the deletions of       *)
(* the removal loop ("rm_loop") and in the select of the timer loop        *)
(* ("select").  Every deploy of a batch is a goroutine of its own; the      *)
(* actors of a batch run the same closure and are told apart by nothing,   *)
(* so the batch is kept as the number of actors in each stage.             *)
(***************************************************************************)
EXTENDS Integers, Sequences, FiniteSets, TLC

\* Bounds of the model.
MaxBatch == 2      \* BatchSize ranges over 0..MaxBatch
MaxPool == 2       \* PoolSize ranges over 0..MaxPool
MaxInit == 2       \* instances in the pool when Start is called
MaxCount == 2      \* the tick and cycle counters saturate here

VARIABLES
    batchSize,      \* cfg.BatchSize
    poolSize,       \* cfg.PoolSize
    dirStat,        \* what os.Stat(cfg.TemplateDir) answers
    pool,           \* the platform's listing, in listing order
    nextId,         \* identifier the platform gives the next instance created
    pc,             \* where the goroutine running Start is
    ret,            \* what Start returned
    cancelled,      \* per context: has its cancel function been called
    tickPending,    \* a tick waits in the ticker's channel t.C (capacity 1)
    currentVersion, \* addAppsToPool: first result of AllIdledApps
    otherVersion,   \* removeOutdatedApps: second result of AllIdledApps
    deploys,        \* per stage of a deploy: the actors of the run.Group in it
    errors,         \* run.Group.Run: the channel the actors send their result on
    got,            \* run.Group.Run: results received so far
    err,            \* run.Group.Run: the first result received
    rmBatch,        \* removeOutdatedApps: otherVersion[0:n]
    deleteLog,      \* this cycle's DeleteApp calls, in order, with their outcome
    calls,          \* this cycle's platform calls, counted by kind
    listErr,        \* this cycle: the phase whose listing failed
    addResult,      \* this cycle: what addAppsToPool returned
    rmResult,       \* this cycle: what removeOutdatedApps returned
    prevAdd,        \* what addAppsToPool returned in the cycle before
    ticksConsumed,  \* ticks received from t.C
    cyclesStarted,  \* calls of work()
    cyclesDone,     \* returns of work()
    inProgress,     \* calls of work() that have not returned
    shutdownSent    \* the caller of Start cancelled its context

vars ==
    <<batchSize, poolSize, dirStat, pool, nextId, pc, ret, cancelled,
      tickPending, currentVersion, otherVersion, deploys, errors, got, err,
      rmBatch, deleteLog, calls, listErr, addResult, rmResult, prevAdd,
      ticksConsumed, cyclesStarted, cyclesDone, inProgress, shutdownSent>>

cfgVars ==
    <<batchSize, poolSize, dirStat>>

groupVars ==
    <<deploys, errors, got, err>>

Min(a, b) ==
    IF a < b THEN a ELSE b

Max(a, b) ==
    IF a > b THEN a ELSE b

Sat(x) ==
    IF x > MaxCount THEN MaxCount ELSE x

NoCalls ==
    [list |-> 0, create |-> 0, scale |-> 0, delete |-> 0]

(***************************************************************************)
(* Contexts.  "start" is the context given to Start; "batch" is the child  *)
(* addAppsToPool derives from it with context.WithCancel.                  *)
(***************************************************************************)
Parent(c) ==
    IF c = "batch" THEN "start" ELSE "none"

Done(c, canc) ==
    canc[c] \/ (Parent(c) # "none" /\ canc[Parent(c)])

\* The context addAppsToPool lists with (its parameter, before the shadowing).
AddCtx ==
    "start"

\* The context the work closure hands to removeOutdatedApps.
RmCtx ==
    "start"

\* The context cancel() of the interrupt function cancels.
CancelTarget_parent ==
    "start"

CancelTarget ==
    "batch"

\* The context each deploy receives: ctx as shadowed by WithCancel.
DeployCtx_unshadowed ==
    "start"

DeployCtx ==
    "batch"

(***************************************************************************)
(* The platform and the editor package.                                    *)
(***************************************************************************)
Versions ==
    {"cur", "old"}

\* AllIdledApps: the listing split by template version, order kept.
CurrentOf(p) ==
    SelectSeq(p, LAMBDA a : a.ver = "cur")

OtherOf(p) ==
    SelectSeq(p, LAMBDA a : a.ver # "cur")

\* A listing call fails on its own or because its context is done.
ListOutcomes(c, canc) ==
    IF Done(c, canc) THEN {"err"} ELSE {"ok", "err"}

\* DeployEditorAndScaleDown: create, then scale down; abandoned once ctx is done.
DeployOutcomes(s, done) ==
    IF done THEN {"canceled"}
    ELSE IF s = "running" THEN {"created", "err"}
    ELSE {"ok", "err"}

Stages ==
    {"running", "created", "ok", "err", "canceled"}

NoDeploys ==
    [s \in Stages |-> 0]

\* The actors of batch d: len(g.actors).
Launched(d) ==
    d["running"] + d["created"] + d["ok"] + d["err"] + d["canceled"]

\* The deploys of batch d that have not returned.
InFlight(d) ==
    d["running"] + d["created"]

Returned(s) ==
    s \in {"ok", "err", "canceled"}

\* DeleteApp: best effort, the failure is logged inside.
DeleteOutcomes ==
    BOOLEAN

Remove(p, app) ==
    SelectSeq(p, LAMBDA a : a.id # app.id)

(***************************************************************************)
(* Capacity arithmetic of the two phases.                                  *)
(***************************************************************************)
AdditionCount_batchOnly(b, p, c) ==
    b

AdditionCount_uncapped(b, p, c) ==
    p - c

\* addAppsToPool: i := PoolSize - len(currentVersion); n := BatchSize; if n > i { n = i }
AdditionCount(b, p, c) ==
    LET i == p - c
    IN  IF b > i THEN i ELSE b

\* for j := 0; j < n; j++ { g.Add(...) }
LaunchCount(n) ==
    IF n > 0 THEN n ELSE 0

RemovalCount_uncapped(b, i) ==
    i

\* removeOutdatedApps: i := len(otherVersion); n := BatchSize; if n > i { n = i }
RemovalCount(b, i) ==
    IF b > i THEN i ELSE b

(***************************************************************************)
(* Initial states: Start has been called and has not yet run.              *)
(***************************************************************************)
InitPools ==
    UNION {[1..k -> Versions] : k \in 0..MaxInit}

\* The instances of p that were in the pool when Start was called: the
\* platform numbers the instances created later from MaxInit + 1.
InitialOf(p) ==
    SelectSeq(p, LAMBDA a : a.id <= MaxInit)

MakePool(vs) ==
    [i \in DOMAIN vs |-> [id |-> i, ver |-> vs[i]]]

Init ==
    /\ batchSize \in 0..MaxBatch
    /\ poolSize \in 0..MaxPool
    /\ dirStat \in {"ok", "notexist", "othererr"}
    /\ \E vs \in InitPools :
          /\ pool = MakePool(vs)
          /\ nextId = MaxInit + 1
    /\ pc = "stat"
    /\ ret = "none"
    /\ cancelled = [c \in {"start", "batch"} |-> FALSE]
    /\ tickPending = FALSE
    /\ currentVersion = <<>>
    /\ otherVersion = <<>>
    /\ deploys = NoDeploys
    /\ errors = <<>>
    /\ got = 0
    /\ err = "none"
    /\ rmBatch = <<>>
    /\ deleteLog = <<>>
    /\ calls = NoCalls
    /\ listErr = "none"
    /\ addResult = "none"
    /\ rmResult = "none"
    /\ prevAdd = "none"
    /\ ticksConsumed = 0
    /\ cyclesStarted = 0
    /\ cyclesDone = 0
    /\ inProgress = 0
    /\ shutdownSent = FALSE

(***************************************************************************)
(* Start, lines 44-74.                                                     *)
(***************************************************************************)
cycleVars ==
    <<calls, listErr, prevAdd, addResult, rmResult, currentVersion,
      otherVersion, rmBatch, deleteLog, deploys, errors, got, err, cancelled,
      cyclesStarted, inProgress>>

\* work() is called: it runs up to the listing call of addAppsToPool.
BeginWork ==
    /\ pc' = "add_list"
    /\ calls' = [NoCalls EXCEPT !.list = 1]
    /\ listErr' = "none"
    /\ prevAdd' = addResult
    /\ addResult' = "none"
    /\ rmResult' = "none"
    /\ currentVersion' = <<>>
    /\ otherVersion' = <<>>
    /\ rmBatch' = <<>>
    /\ deleteLog' = <<>>
    /\ deploys' = NoDeploys
    /\ errors' = <<>>
    /\ got' = 0
    /\ err' = "none"
    /\ cancelled' = [cancelled EXCEPT !["batch"] = FALSE]
    /\ cyclesStarted' = Sat(cyclesStarted + 1)
    /\ inProgress' = inProgress + 1

EndWork_exit ==
    /\ pc' = "returned"
    /\ cyclesDone' = Sat(cyclesDone + 1)
    /\ inProgress' = inProgress - 1

\* work() returns to Start, which goes (back) to the select.
EndWork ==
    /\ pc' = "select"
    /\ cyclesDone' = Sat(cyclesDone + 1)
    /\ inProgress' = inProgress - 1

WorkAfterAdd_noRemoval(e, c) ==
    /\ addResult' = e
    /\ calls' = c
    /\ EndWork

WorkAfterAdd_noRelist(e, c) ==
    /\ addResult' = e
    /\ IF e # "nil"
       THEN /\ calls' = c
            /\ EndWork
       ELSE /\ pc' = "rm_list"
            /\ calls' = c
            /\ UNCHANGED <<cyclesDone, inProgress>>

WorkAfterAdd_noReturn(e, c) ==
    /\ addResult' = e
    /\ pc' = "rm_list"
    /\ calls' = [c EXCEPT !.list = @ + 1]
    /\ UNCHANGED <<cyclesDone, inProgress>>

\* The work closure once addAppsToPool has returned e, with c the calls so far:
\* an error is logged and ends the cycle, otherwise removeOutdatedApps is
\* called and issues its listing call.
WorkAfterAdd(e, c) ==
    /\ addResult' = e
    /\ IF e # "nil"
       THEN /\ calls' = c
            /\ EndWork
       ELSE /\ pc' = "rm_list"
            /\ calls' = [c EXCEPT !.list = @ + 1]
            /\ UNCHANGED <<cyclesDone, inProgress>>

StatFails_never(d) ==
    FALSE

\* if _, err := os.Stat(dir); os.IsNotExist(err) { return error }
StatFails(d) ==
    d = "notexist"

FirstWork_none ==
    /\ pc' = "select"
    /\ UNCHANGED cycleVars

\* work() // immediate first tick
FirstWork ==
    BeginWork

StatDir ==
    /\ pc = "stat"
    /\ IF StatFails(dirStat)
       THEN /\ pc' = "returned"
            /\ ret' = "err"
            /\ UNCHANGED cycleVars
       ELSE /\ FirstWork
            /\ ret' = ret
    /\ UNCHANGED <<cfgVars, pool, nextId, tickPending, ticksConsumed,
                   cyclesDone, shutdownSent>>

\* The ticker created at line 62 sends on t.C; a tick is dropped while one waits.
Tick ==
    /\ pc \notin {"stat", "returned"}
    /\ ~tickPending
    /\ tickPending' = TRUE
    /\ UNCHANGED <<cfgVars, pool, nextId, pc, ret, cycleVars, ticksConsumed,
                   cyclesDone, shutdownSent>>

\* The caller of Start cancels the context it gave to Start.
Shutdown ==
    /\ pc # "returned"
    /\ ~cancelled["start"]
    /\ cancelled' = [cancelled EXCEPT !["start"] = TRUE]
    /\ shutdownSent' = TRUE
    /\ UNCHANGED <<cfgVars, pool, nextId, pc, ret, tickPending,
                   currentVersion, otherVersion, groupVars, rmBatch,
                   deleteLog, calls, listErr, addResult, rmResult, prevAdd,
                   ticksConsumed, cyclesStarted, cyclesDone, inProgress>>

AtSelect_async ==
    pc \notin {"stat", "returned"}

\* Start receives in its select only between two calls of work(), which it
\* calls synchronously.
AtSelect ==
    pc = "select"

\* case <-t.C: work()
SelectTick ==
    /\ AtSelect
    /\ tickPending
    /\ tickPending' = FALSE
    /\ ticksConsumed' = Sat(ticksConsumed + 1)
    /\ BeginWork
    /\ UNCHANGED <<cfgVars, pool, nextId, ret, cyclesDone, shutdownSent>>

DoneReturn_ctxErr ==
    "err"

\* case <-ctx.Done(): return nil
DoneReturn ==
    "nil"

SelectDone ==
    /\ AtSelect
    /\ Done("start", cancelled)
    /\ pc' = "returned"
    /\ ret' = DoneReturn
    /\ UNCHANGED <<cfgVars, pool, nextId, tickPending, cycleVars,
                   ticksConsumed, cyclesDone, shutdownSent>>

(***************************************************************************)
(* addAppsToPool, lines 96-126, with run.Group.Run as g.Run() runs it:     *)
(* every actor is started in a goroutine of its own, the first result      *)
(* received is kept, every actor is interrupted, the other results are     *)
(* awaited, the first result is returned.                                  *)
(***************************************************************************)
ListFailed_ignored(r) ==
    FALSE

\* if err != nil { return err } after AllIdledApps
ListFailed(r) ==
    r = "err"

\* The listing call of addAppsToPool returns.  On success the batch is sized,
\* the context is derived and g.Run() starts every actor.
AddListReturn ==
    /\ pc = "add_list"
    /\ \E r \in ListOutcomes(AddCtx, cancelled) :
          /\ listErr' = IF r = "err" THEN "add" ELSE listErr
          /\ IF ListFailed(r)
             THEN /\ WorkAfterAdd("err", calls)
                  /\ UNCHANGED <<currentVersion, deploys, cancelled>>
             ELSE
               /\ currentVersion' = CurrentOf(pool)
               /\ cancelled' = [cancelled EXCEPT !["batch"] = FALSE]
               /\ LET n == LaunchCount(AdditionCount(batchSize, poolSize,
                                                     Len(CurrentOf(pool))))
                  IN  /\ deploys' = [NoDeploys EXCEPT !["running"] = n]
                      /\ IF n = 0
                         THEN WorkAfterAdd("nil", calls)
                         ELSE
                           /\ pc' = "run_wait"
                           /\ UNCHANGED <<addResult, calls, cyclesDone,
                                          inProgress>>
    /\ UNCHANGED <<cfgVars, pool, nextId, ret, tickPending, otherVersion,
                   errors, got, err, rmBatch, deleteLog, rmResult, prevAdd,
                   ticksConsumed, cyclesStarted, shutdownSent>>

\* What an actor's execute function returns for a deploy that ended as o.
ActorResult(o) ==
    IF o = "ok" THEN "nil" ELSE "err"

\* One step of the deploy of an actor in stage s: the create call, then the
\* scale call; when the deploy returns, the actor's goroutine sends the result
\* on errors.
DeployStep(s) ==
    /\ deploys[s] > 0
    /\ \E o \in DeployOutcomes(s, Done(DeployCtx, cancelled)) :
          /\ deploys' = [deploys EXCEPT ![s] = @ - 1, ![o] = @ + 1]
          /\ calls' = IF o = "canceled" THEN calls
                      ELSE IF s = "running"
                           THEN [calls EXCEPT !.create = @ + 1]
                           ELSE [calls EXCEPT !.scale = @ + 1]
          /\ IF o = "created"
             THEN /\ pool' = Append(pool, [id |-> nextId, ver |-> "cur"])
                  /\ nextId' = nextId + 1
             ELSE UNCHANGED <<pool, nextId>>
          /\ errors' = IF Returned(o) THEN Append(errors, ActorResult(o))
                       ELSE errors
    /\ UNCHANGED <<cfgVars, pc, ret, cancelled, tickPending, currentVersion,
                   otherVersion, got, err, rmBatch, deleteLog, listErr,
                   addResult, rmResult, prevAdd, ticksConsumed, cyclesStarted,
                   cyclesDone, inProgress, shutdownSent>>

ErrorsCap_one(d) ==
    1

\* errors := make(chan error, len(g.actors)): Run receives that many results.
ErrorsCap(d) ==
    Launched(d)

\* err := <-errors; then a.interrupt(err) for every actor, which is cancel().
RunFirst ==
    /\ pc = "run_wait"
    /\ errors # <<>>
    /\ err' = Head(errors)
    /\ errors' = Tail(errors)
    /\ got' = 1
    /\ cancelled' = [cancelled EXCEPT ![CancelTarget] = TRUE]
    /\ IF ErrorsCap(deploys) = 1
       THEN WorkAfterAdd(Head(errors), calls)
       ELSE /\ pc' = "run_join"
            /\ UNCHANGED <<addResult, calls, cyclesDone, inProgress>>
    /\ UNCHANGED <<cfgVars, pool, nextId, ret, tickPending, currentVersion,
                   otherVersion, deploys, rmBatch, deleteLog, listErr,
                   rmResult, prevAdd, ticksConsumed, cyclesStarted,
                   shutdownSent>>

\* for i := 1; i < cap(errors); i++ { <-errors }; return err
RunRecv ==
    /\ pc = "run_join"
    /\ errors # <<>>
    /\ errors' = Tail(errors)
    /\ got' = got + 1
    /\ IF got + 1 = ErrorsCap(deploys)
       THEN WorkAfterAdd(err, calls)
       ELSE UNCHANGED <<pc, addResult, calls, cyclesDone, inProgress>>
    /\ UNCHANGED <<cfgVars, pool, nextId, ret, cancelled, tickPending,
                   currentVersion, otherVersion, deploys, err, rmBatch,
                   deleteLog, listErr, rmResult, prevAdd, ticksConsumed,
                   cyclesStarted, shutdownSent>>

(***************************************************************************)
(* removeOutdatedApps, lines 76-94.                                        *)
(***************************************************************************)
\* The listing call of removeOutdatedApps returns; on success the batch
\* otherVersion[0:n] is cut and the loop runs up to its first DeleteApp.
RmListReturn ==
    /\ pc = "rm_list"
    /\ \E r \in ListOutcomes(RmCtx, cancelled) :
          /\ listErr' = IF r = "err" THEN "rm" ELSE listErr
          /\ IF ListFailed(r)
             THEN /\ rmResult' = "err"
                  /\ EndWork
                  /\ UNCHANGED <<otherVersion, rmBatch>>
             ELSE
               /\ otherVersion' = OtherOf(pool)
               /\ LET n == RemovalCount(batchSize, Len(OtherOf(pool)))
                  IN  /\ rmBatch' = SubSeq(OtherOf(pool), 1, n)
                      /\ IF n = 0
                         THEN /\ rmResult' = "nil"
                              /\ EndWork
                         ELSE /\ pc' = "rm_loop"
                              /\ UNCHANGED <<rmResult, cyclesDone, inProgress>>
    /\ UNCHANGED <<cfgVars, pool, nextId, ret, cancelled, tickPending,
                   currentVersion, groupVars, deleteLog, calls, addResult,
                   prevAdd, ticksConsumed, cyclesStarted, shutdownSent>>

RmContinue_abort(ok, k, n) ==
    ok /\ k < n

\* The range loop goes on to the next app whatever DeleteApp did with the
\* k-th of n.
RmContinue(ok, k, n) ==
    k < n

\* editor.DeleteApp(w.heroku, &app, w.logger) on the next app of the batch.
RmDelete ==
    /\ pc = "rm_loop"
    /\ LET k == Len(deleteLog) + 1
           app == rmBatch[k]
       IN  \E ok \in DeleteOutcomes :
              /\ deleteLog' = Append(deleteLog, [app |-> app, ok |-> ok])
              /\ calls' = [calls EXCEPT !.delete = @ + 1]
              /\ pool' = IF ok THEN Remove(pool, app) ELSE pool
              /\ IF RmContinue(ok, k, Len(rmBatch))
                 THEN UNCHANGED <<pc, rmResult, cyclesDone, inProgress>>
                 ELSE /\ rmResult' = "nil"
                      /\ EndWork
    /\ UNCHANGED <<cfgVars, nextId, ret, cancelled, tickPending,
                   currentVersion, otherVersion, groupVars, rmBatch, listErr,
                   addResult, prevAdd, ticksConsumed, cyclesStarted,
                   shutdownSent>>

(***************************************************************************)
(* The specifications.                                                     *)
(***************************************************************************)
Next ==
    \/ StatDir
    \/ Tick
    \/ Shutdown
    \/ SelectTick
    \/ SelectDone
    \/ AddListReturn
    \/ \E s \in {"running", "created"} : DeployStep(s)
    \/ RunFirst
    \/ RunRecv
    \/ RmListReturn
    \/ RmDelete

Spec ==
    Init /\ [][Next]_vars

\* A step of the goroutine of Start inside a cycle, or of a deploy goroutine:
\* the return of a platform call, or a receive from errors.
CycleStep ==
    \/ StatDir
    \/ AddListReturn
    \/ \E s \in {"running", "created"} : DeployStep(s)
    \/ RunFirst
    \/ RunRecv
    \/ RmListReturn
    \/ RmDelete

\* Every platform call in flight returns and a goroutine that can run does;
\* the select of Start, which picks among its ready cases at random, does not
\* pass over a ready ctx.Done() for ever.
Fairness ==
    /\ WF_vars(CycleStep)
    /\ SF_vars(SelectDone)

LiveSpec ==
    Init /\ [][Next]_vars /\ Fairness

(***************************************************************************)
(* Properties.                                                             *)
(***************************************************************************)
\* The listing of the addition phase of the current cycle succeeded.
AddListed ==
    \/ pc \in {"run_wait", "run_join"}
    \/ (addResult # "none" /\ listErr # "add")

\* The listing of the removal phase of the current cycle succeeded.
RmListed ==
    \/ pc = "rm_loop"
    \/ rmResult = "nil"

DeletedApps ==
    [k \in 1..Len(deleteLog) |-> deleteLog[k].app]

\* C1: once the listing of the addition phase has succeeded, the number of
\* deploys addAppsToPool launched is min(batchSize, max(0, poolSize -
\* currentCount)): none when currentCount >= poolSize, never more than batchSize.
C1_AdditionsLaunched ==
    AddListed =>
        /\ Launched(deploys)
              = Min(batchSize, Max(0, poolSize - Len(currentVersion)))
        /\ Launched(deploys) <= batchSize
        /\ (Len(currentVersion) >= poolSize => Launched(deploys) = 0)

\* C1 witness: a batch was launched that the pool's deficit, not batchSize, capped.
C1_Witness ==
    /\ AddListed
    /\ Launched(deploys) = 1
    /\ batchSize = 2
    /\ Len(currentVersion) = 1

\* C2: once the listing of the removal phase has succeeded, the delete calls
\* are issued one by one on the first min(batchSize, otherCount) outdated
\* instances in listing order, exactly that many when the phase has returned,
\* and never on a current-version instance.
C2_RemovalsInListingOrder ==
    /\ calls.delete = Len(deleteLog)
    /\ RmListed =>
          /\ rmBatch = SubSeq(otherVersion, 1,
                              Min(batchSize, Len(otherVersion)))
          /\ Len(deleteLog) <= Len(rmBatch)
          /\ DeletedApps = SubSeq(rmBatch, 1, Len(deleteLog))
          /\ (rmResult = "nil" =>
                Len(deleteLog) = Min(batchSize, Len(otherVersion)))
    /\ \A k \in DOMAIN deleteLog : deleteLog[k].app.ver # "cur"

\* C2 witness: two outdated instances listed, batchSize 1, the phase returned
\* after deleting the first one only.
C2_Witness ==
    /\ rmResult = "nil"
    /\ batchSize = 1
    /\ Len(otherVersion) = 2
    /\ DeletedApps = <<otherVersion[1]>>

\* C3: if at least one deploy of the batch returned an error, addAppsToPool
\* returns an error.
C3_AnyDeployErrorIsReported ==
    (addResult # "none" /\ deploys["err"] + deploys["canceled"] > 0)
        => addResult = "err"

\* C4: once a deploy of the batch has failed and Run has taken a first result,
\* the context the deploys share is done and a sibling still in flight can only
\* return cancelled; the context given to Start, which the removal phase and
\* the later cycles receive, is cancelled by the shutdown alone.
C4_CancellationConfinedToBatch ==
    /\ (pc = "run_join" /\ deploys["err"] > 0) =>
          /\ Done(DeployCtx, cancelled)
          /\ \A s \in {"running", "created"} :
                deploys[s] > 0 =>
                    DeployOutcomes(s, Done(DeployCtx, cancelled))
                        = {"canceled"}
    /\ (Done(RmCtx, cancelled) => shutdownSent)
    /\ (Done(AddCtx, cancelled) => shutdownSent)

\* C4 witness: a deploy failed, Run has interrupted the batch, a sibling is
\* still in flight, and the context given to Start is not done.
C4_Witness ==
    /\ pc = "run_join"
    /\ deploys["err"] > 0
    /\ InFlight(deploys) > 0
    /\ cancelled["batch"]
    /\ ~Done("start", cancelled)

\* C5 as stated: a cycle in which a listing call fails issues no create, scale
\* or delete call, and a failed addition listing skips the removal phase.
C5_NoMutationInCycleWithFailedListing ==
    listErr # "none" =>
        /\ calls.create = 0
        /\ calls.scale = 0
        /\ calls.delete = 0
        /\ (listErr = "add" => calls.list = 1 /\ rmResult = "none")

\* C5 amended: a failed listing of the addition phase ends the cycle with no
\* create, scale or delete call and without the removal phase; a failed
\* listing of the removal phase ends the cycle with no delete call (the
\* deploys of the addition phase have been issued by then).
C5_FailedListingStopsItsPhase ==
    /\ listErr = "add" =>
          /\ calls.create = 0
          /\ calls.scale = 0
          /\ calls.delete = 0
          /\ calls.list = 1
          /\ rmResult = "none"
          /\ pc \in {"select", "returned"}
    /\ listErr = "rm" =>
          /\ calls.delete = 0
          /\ calls.list = 2
          /\ pc \in {"select", "returned"}

\* C5 witness: the listing of the removal phase failed in a cycle whose
\* addition phase had created an instance.
C5_Witness ==
    /\ listErr = "rm"
    /\ calls.create > 0
    /\ pc = "select"

\* The addition phase is running.
InAddition ==
    pc \in {"add_list", "run_wait", "run_join"}

\* C6: a cycle whose addition phase returned an error issues no delete call
\* and does not run the removal phase; Start is then back at its select,
\* where a tick starts a new cycle with the addition phase, whatever the cycle
\* before returned, and an addition phase that succeeds is followed by the
\* removal phase.
C6_AdditionFailureEndsCycleOnly ==
    /\ [](addResult = "err" =>
            /\ calls.delete = 0
            /\ rmResult = "none"
            /\ pc \in {"select", "returned"}
            /\ (pc = "select" => ret = "none"))
    /\ [][(pc = "select" /\ addResult = "err" /\ tickPending /\ ~tickPending')
            => (pc' = "add_list" /\ calls'.list = 1 /\ prevAdd' = "err")]_vars
    /\ [][(InAddition /\ addResult' = "nil") => pc' = "rm_list"]_vars

\* C6 witness: the addition phase of the cycle before returned an error, and
\* the current cycle is in its removal phase.
C6_Witness ==
    /\ prevAdd = "err"
    /\ pc = "rm_loop"

\* A call of work() is in progress.
InCycle ==
    pc \in {"add_list", "run_wait", "run_join", "rm_list", "rm_loop"}

\* C7: at most one cycle is in progress, and a cycle starts only when Start
\* is not inside a cycle, the phases of the cycle before having returned,
\* also when a tick arrived while that cycle was running.
C7_CyclesSerialized ==
    /\ [](inProgress <= 1 /\ (inProgress = 1 <=> InCycle))
    /\ [][inProgress' > inProgress =>
            /\ inProgress = 0
            /\ ~InCycle
            /\ InFlight(deploys) = 0
            /\ (pc = "select" =>
                  /\ addResult # "none"
                  /\ (addResult = "nil" => rmResult # "none"))]_vars

\* C7 witness: a tick arrived while the removal loop of a cycle was running.
C7_Witness ==
    /\ pc = "rm_loop"
    /\ tickPending
    /\ inProgress = 1
    /\ cyclesDone >= 1

\* C8: when the template directory exists, Start has run one full cycle when
\* it first waits at the select, and the first listing call is issued before
\* any tick is consumed.
C8_FirstCycleBeforeTicker ==
    dirStat = "ok" =>
        /\ (pc # "stat" => cyclesStarted >= 1)
        /\ ((pc = "select" /\ ticksConsumed = 0) =>
               cyclesStarted = 1 /\ cyclesDone = 1)
        /\ (ticksConsumed > 0 => cyclesDone >= 1)
        /\ (cyclesStarted = 0 => calls.list = 0 /\ ticksConsumed = 0)

\* C8 witness: Start waits at the select for the first time, a tick pending,
\* one cycle done.
C8_Witness ==
    /\ dirStat = "ok"
    /\ pc = "select"
    /\ ticksConsumed = 0
    /\ tickPending
    /\ cyclesDone = 1

\* C9: once the context given to Start is cancelled, with every platform call
\* returning, Start (past its check of the template directory) eventually
\* returns, and returns nil.
C9_ShutdownReturnsNil ==
    (shutdownSent /\ dirStat # "notexist") ~> (pc = "returned" /\ ret = "nil")

\* C9 witness: Start returned nil after the shutdown arrived inside a cycle
\* that went on to its removal loop.
C9_Witness ==
    /\ pc = "returned"
    /\ ret = "nil"
    /\ shutdownSent
    /\ deleteLog # <<>>

\* C10: a failed delete does not end the removal loop: when the phase has
\* returned every instance of the batch has been attempted, the phase returned
\* nil, and the cycle ended at the select; the only error removeOutdatedApps
\* returns is the listing's.
C10_FailedDeleteIsolated ==
    /\ (pc = "rm_loop" => Len(deleteLog) < Len(rmBatch) /\ rmResult = "none")
    /\ (rmResult = "nil" => Len(deleteLog) = Len(rmBatch))
    /\ ((deleteLog # <<>> /\ pc # "rm_loop") =>
           /\ rmResult = "nil"
           /\ pc \in {"select", "returned"}
           /\ inProgress = 0)
    /\ (rmResult = "err" => listErr = "rm" /\ deleteLog = <<>>)

\* C10 witness: the delete of the first instance of a batch of two failed, the
\* second was attempted, and the phase returned nil.
C10_Witness ==
    /\ rmResult = "nil"
    /\ Len(deleteLog) = 2
    /\ ~deleteLog[1].ok
    /\ pc = "select"

\* C11: when the template path does not exist, Start returns an error without
\* having created its ticker (no tick fires), started a cycle or issued a
\* list, create, scale or delete call.
C11_MissingTemplateFailsStartup ==
    dirStat = "notexist" =>
        /\ pc \in {"stat", "returned"}
        /\ (pc = "returned" => ret = "err")
        /\ ~tickPending
        /\ ticksConsumed = 0
        /\ cyclesStarted = 0
        /\ calls = NoCalls
        /\ deleteLog = <<>>
        /\ Launched(deploys) = 0

\* C11 witness: Start returned its error for a missing template path.
C11_Witness ==
    /\ dirStat = "notexist"
    /\ pc = "returned"
    /\ ret = "err"
    /\ calls = NoCalls

(***************************************************************************)
(* The worker left to itself: batchSize >= 1, the template directory       *)
(* there, no shutdown, ticks that keep firing, and every list, create,     *)
(* scale and delete call that is made succeeding.                          *)
(***************************************************************************)
ConvergeInit ==
    /\ Init
    /\ batchSize >= 1
    /\ dirStat = "ok"

\* The step made no platform call fail.
NoFault ==
    /\ listErr' = "none"
    /\ deploys'["err"] = 0
    /\ \A k \in DOMAIN deleteLog' : deleteLog'[k].ok

ConvergeCycleStep ==
    \/ StatDir
    \/ AddListReturn /\ NoFault
    \/ (\E s \in {"running", "created"} : DeployStep(s)) /\ NoFault
    \/ RunFirst
    \/ RunRecv
    \/ RmListReturn /\ NoFault
    \/ RmDelete /\ NoFault

ConvergeNext ==
    \/ ConvergeCycleStep
    \/ Tick
    \/ SelectTick

ConvergeSpec ==
    /\ ConvergeInit
    /\ [][ConvergeNext]_vars
    /\ WF_vars(ConvergeCycleStep)
    /\ WF_vars(Tick)
    /\ WF_vars(SelectTick)

CurrentCount ==
    Len(CurrentOf(pool))

OtherCount ==
    Len(OtherOf(pool))

\* The current-version instances the pool held when Start was called.
InitialCurrentCount ==
    Len(CurrentOf(InitialOf(pool)))

\* C12 as stated: from any initial pool the number of current-version
\* instances eventually is poolSize and the number of outdated ones zero.
C12_ConvergesToPoolSize ==
    <>(CurrentCount = poolSize /\ OtherCount = 0)

\* C12 amended: the number of current-version instances eventually is, and
\* stays, the larger of poolSize and the initial number of current-version
\* instances (the worker never removes one), and the number of outdated
\* instances eventually is, and stays, zero.
C12_ConvergesToAtLeastPoolSize ==
    <>[](/\ CurrentCount = Max(poolSize, InitialCurrentCount)
         /\ OtherCount = 0)

\* C12 witness: a pool that needed both deploys and deletions holds poolSize
\* current-version instances and no outdated one.
C12_Witness ==
    /\ pc = "select"
    /\ poolSize = 2
    /\ CurrentCount = 2
    /\ OtherCount = 0
    /\ nextId > MaxInit + 1
    /\ deleteLog # <<>>

\* C13: in a batch in which no deploy failed on its own (and with no shutdown),
\* no deploy is cancelled: when addAppsToPool has returned, every deploy
\* launched has completed, so that many instances are deployed and idled.
C13_SuccessCancelsNoSibling ==
    (AddListed /\ addResult # "none" /\ deploys["err"] = 0 /\ ~shutdownSent) =>
        /\ deploys["canceled"] = 0
        /\ deploys["ok"] = Launched(deploys)
        /\ calls.scale = Launched(deploys)

\* C14 as stated: a cycle issues one listing call.
C14_SingleListingPerCycle ==
    calls.list <= 1

\* C14 amended: the addition phase lists once and keeps no outdated
\* instances; a cycle that reaches the removal phase lists a second time, and
\* the removal batch is cut from the pool as that second listing returns it.
C14_RemovalListsAgain ==
    /\ [](InAddition => calls.list = 1 /\ otherVersion = <<>>)
    /\ []((pc \in {"rm_list", "rm_loop"} \/ rmResult # "none")
            => calls.list = 2)
    /\ [][(pc = "rm_list" /\ pc' # "rm_list" /\ listErr' # "rm") =>
            /\ otherVersion' = OtherOf(pool)
            /\ rmBatch' = SubSeq(OtherOf(pool), 1,
                                 Min(batchSize, Len(OtherOf(pool))))]_vars

\* C14 witness: the removal loop runs on a second listing, taken after the
\* addition phase of the same cycle created an instance.
C14_Witness ==
    /\ pc = "rm_loop"
    /\ calls.list = 2
    /\ calls.create > 0
    /\ Len(pool) > Len(currentVersion) + Len(otherVersion)

\* C15: once the shutdown has been delivered, Start at its select starts no
\* new cycle, also when a tick is pending.
C15_NoCycleAfterShutdown ==
    [][(pc = "select" /\ shutdownSent) => inProgress' = inProgress]_vars

\* C16: a shutdown that arrives once the listing of the removal phase has
\* returned does not interrupt the loop: the next delete stays possible, the
\* loop is left only for the select, with every instance of the batch
\* attempted, min(batchSize, otherCount) deletes in all.
C16_RemovalLoopIgnoresShutdown ==
    /\ [](pc = "rm_loop" => ENABLED RmDelete)
    /\ [][pc = "rm_loop" => pc' \in {"rm_loop", "select"}]_vars
    /\ [][(pc = "rm_loop" /\ pc' = "select") =>
            Len(deleteLog') = Len(rmBatch)]_vars
    /\ []((shutdownSent /\ rmResult = "nil") =>
            Len(deleteLog) = Min(batchSize, Len(otherVersion)))

\* C16 witness: the shutdown arrived after the listing of the removal phase
\* returned a batch of two and before its first delete.
C16_Witness ==
    /\ pc = "rm_loop"
    /\ shutdownSent
    /\ Len(rmBatch) = 2
    /\ deleteLog = <<>>

\* A call inside the cycle that just ended failed.
CycleFailed ==
    \/ listErr # "none"
    \/ addResult = "err"
    \/ deploys["err"] > 0
    \/ \E k \in DOMAIN deleteLog : ~deleteLog[k].ok

\* C17: Start returns only with the startup error, before any cycle, or with
\* nil after the shutdown; a cycle is left only for the select, so after a
\* failed cycle Start waits for the next tick or for the shutdown.
C17_CycleErrorsKeepLoopRunning ==
    /\ [](pc = "returned" =>
            \/ (ret = "err" /\ cyclesStarted = 0)
            \/ (ret = "nil" /\ shutdownSent /\ cyclesDone >= 1))
    /\ [](pc # "returned" => ret = "none")
    /\ [][(InCycle /\ ~InCycle') => pc' = "select"]_vars
    /\ []((CycleFailed /\ ~InCycle /\ ~shutdownSent) => pc = "select")

\* C17 witness: Start waits at its select after a cycle whose deploy failed,
\* following a cycle whose addition phase had returned an error.
C17_Witness ==
    /\ pc = "select"
    /\ prevAdd = "err"
    /\ CycleFailed
    /\ ret = "none"

\* C18: whenever the check of the template directory fails, for a missing
\* directory or for any other reason, Start returns an error and runs no cycle.
C18_UnusableTemplateFailsStartup ==
    dirStat # "ok" =>
        /\ pc \in {"stat", "returned"}
        /\ (pc = "returned" => ret = "err")
        /\ cyclesStarted = 0

\* C19: the pool never holds more current-version instances than the larger
\* of poolSize and the number it held when Start was called, and the create
\* calls of one cycle number at most min(batchSize, poolSize - currentCount),
\* none when the listing shows no deficit.
C19_NeverOverProvisions ==
    /\ CurrentCount <= Max(InitialCurrentCount, poolSize)
    /\ calls.create <= Launched(deploys)
    /\ AddListed =>
          calls.create
              <= Min(batchSize, Max(0, poolSize - Len(currentVersion)))

\* C19 witness: after a cycle with a cancelled deploy and at least one more
\* cycle, the pool holds poolSize current-version instances, all created by
\* the worker.
C19_Witness ==
    /\ pc = "select"
    /\ cyclesDone >= 2
    /\ deploys["canceled"] > 0
    /\ poolSize = 2
    /\ CurrentCount = 2
    /\ InitialCurrentCount = 0

\* C20: outside g.Run() no deploy of the batch is in flight: when
\* addAppsToPool has returned, with nil or with an error, Run has received the
\* result of every actor it started, so none runs during the removal phase,
\* at the select or into a later cycle.
C20_BatchJoined ==
    /\ pc \notin {"run_wait", "run_join"} =>
          /\ InFlight(deploys) = 0
          /\ errors = <<>>
    /\ addResult # "none" =>
          /\ InFlight(deploys) = 0
          /\ got = Launched(deploys)

\* C20 witness: addAppsToPool returned an error for a batch of two whose
\* other deploy was cancelled, and both had returned by then.
C20_Witness ==
    /\ addResult = "err"
    /\ Launched(deploys) = 2
    /\ deploys["canceled"] = 1
    /\ got = 2
    /\ pc = "select"

====
